---- MODULE Spec2Model ----
(***************************************************************************)
(* SelfAdjointEigenSolver (Eigen/src/Eigenvalues/SelfAdjointEigenSolver.h) *)
(* as a state machine: one solver object, the calls made on it, and the    *)
(* position of the running call inside compute.                            *)
(*                                                                         *)
(* RealScalar is modelled as fixed-point numbers: the integer v stands for *)
(* the real v / Scale, every product, quotient and square root is rounded  *)
(* to the nearest representable value.  The build modelled is the one      *)
(* without NDEBUG, the only one in which m_eigenvectorsOk exists and       *)
(* assert / ei_assert are compiled in; a failed assertion ends the program.*)
(***************************************************************************)
EXTENDS Integers, Sequences, FiniteSets, TLC

\* ------------------------------------------------------------------ bounds
MaxN == 3        \* largest extent of the matrix families offered to compute
MaxCalls == 2    \* compute calls made on the one solver object

\* ------------------------------------------------------------------ scalars
Scale == 1024    \* resolution of RealScalar: v stands for v / Scale
PrecDen == 8     \* dummy_precision() of the negligibility test is 1 / PrecDen

Abs(a) == IF a < 0 THEN -a ELSE a

Sign(a) == IF a < 0 THEN -1 ELSE 1

\* a / b rounded to the nearest integer, halves away from zero
RoundDiv(a, b) ==
  (IF (a < 0) = (b < 0) THEN 1 ELSE -1) * ((2 * Abs(a) + Abs(b)) \div (2 * Abs(b)))

Mul(a, b) == RoundDiv(a * b, Scale)

Div(a, b) == RoundDiv(a * Scale, b)

One == Scale

Half == Scale \div 2

\* the largest r in lo .. hi-1 with r*r <= m, by bisection
RECURSIVE ISqrtBetween(_, _, _)
ISqrtBetween(lo, hi, m) ==
  IF hi - lo <= 1 THEN lo
  ELSE LET mid == (lo + hi) \div 2
       IN IF mid * mid <= m THEN ISqrtBetween(mid, hi, m) ELSE ISqrtBetween(lo, mid, m)

\* ei_sqrt: the representable value nearest to the square root
Sqrt(a) ==
  LET m == a * Scale
      r == ISqrtBetween(0, 8 * Scale, m)
  IN IF (r + 1) * (r + 1) - m < m - r * r THEN r + 1 ELSE r

\* a coefficient of freshly allocated storage that nothing has written yet
Indet == 0 - Scale * Scale * Scale

\* ------------------------------------------------------------------ containers
\* A vector is a function on 0 .. size-1, a matrix a record of its extents
\* and of its coefficients, a function on (row, column) pairs.
Size(v) == Cardinality(DOMAIN v)

Vec(n, f(_)) == [i \in 0 .. n - 1 |-> f(i)]

Mat(r, c, f(_, _)) ==
  [rows |-> r, cols |-> c,
   coeff |-> [p \in (0 .. r - 1) \X (0 .. c - 1) |-> f(p[1], p[2])]]

IndetOf(i) == Indet

IndetOf2(i, j) == Indet

\* PlainObjectBase::resize: storage of another size is reallocated and its
\* coefficients are indeterminate; storage of the same size is kept.
ResizeVec(v, n) == IF Size(v) = n THEN v ELSE Vec(n, IndetOf)

ResizeMat(M, r, c) ==
  IF M.rows = r /\ M.cols = c THEN M ELSE Mat(r, c, IndetOf2)

Col(M, j) == [i \in 0 .. M.rows - 1 |-> M.coeff[<<i, j>>]]

\* the columns are left where they are
SwapColsNone(M, a, b) == M

SwapCols(M, a, b) ==
  [M EXCEPT !.coeff = [p \in DOMAIN M.coeff |->
     IF p[2] = a THEN M.coeff[<<p[1], b>>]
     ELSE IF p[2] = b THEN M.coeff[<<p[1], a>>]
     ELSE M.coeff[p]]]

\* a swap written as a single assignment: the value at a is lost
SwapVecLossy(v, a, b) == [j \in DOMAIN v |-> IF j = a THEN v[b] ELSE v[j]]

SwapVec(v, a, b) ==
  [j \in DOMAIN v |-> IF j = a THEN v[b] ELSE IF j = b THEN v[a] ELSE v[j]]

Transpose(M) ==
  [rows |-> M.cols, cols |-> M.rows,
   coeff |-> [p \in (0 .. M.cols - 1) \X (0 .. M.rows - 1) |-> M.coeff[<<p[2], p[1]>>]]]

IdentityCoeff(i, j) == IF i = j THEN One ELSE 0

Identity(n) == Mat(n, n, IdentityCoeff)

OnesCoeff(i, j) == One

\* ------------------------------------------------------------------ collaborators
\* PlanarRotation::makeGivens(p, q): the rotation (c, s), c^2 + s^2 = 1, with
\* s*p + c*q = 0; the identity rotation for q = 0.
MakeGivens(p, q) ==
  IF q = 0 THEN [c |-> IF p < 0 THEN -One ELSE One, s |-> 0]
  ELSE IF p = 0 THEN [c |-> 0, s |-> IF q < 0 THEN One ELSE -One]
  ELSE IF Abs(p) > Abs(q)
    THEN LET t == Div(q, p)
             u == Sign(p) * Sqrt(One + Mul(t, t))
             c == Div(One, u)
         IN [c |-> c, s |-> Mul(-t, c)]
    ELSE LET t == Div(p, q)
             u == Sign(q) * Sqrt(One + Mul(t, t))
             s == -Div(One, u)
         IN [c |-> Mul(-t, s), s |-> s]

\* MatrixBase::applyOnTheRight(k, k+1, rot): Q = Q * G on columns k and k+1
ApplyOnTheRight(Q, k, rot) ==
  [Q EXCEPT !.coeff = [p \in DOMAIN Q.coeff |->
     IF p[2] = k
       THEN Mul(rot.c, Q.coeff[<<p[1], k>>]) - Mul(rot.s, Q.coeff[<<p[1], k + 1>>])
     ELSE IF p[2] = k + 1
       THEN Mul(rot.s, Q.coeff[<<p[1], k>>]) + Mul(rot.c, Q.coeff[<<p[1], k + 1>>])
     ELSE Q.coeff[p]]]

\* Tridiagonalization of a selfadjoint matrix whose lower triangle is already
\* tridiagonal: every Householder reflector is trivial (tau = 0), so the
\* diagonal and the sub-diagonal are those of the matrix and matrixQ() is the
\* identity.  Only the lower triangle is read.
IsTridiagonal(M) ==
  \A p \in DOMAIN M.coeff : p[1] > p[2] + 1 => M.coeff[p] = 0

TridiagDiagonal(M) == [i \in 0 .. M.rows - 1 |-> M.coeff[<<i, i>>]]

TridiagSubDiagonal(M) == [i \in 0 .. M.rows - 2 |-> M.coeff[<<i + 1, i>>]]

TridiagMatrixQ(M) == Identity(M.rows)

\* ei_isMuchSmallerThan(a, b): |a| <= |b| * dummy_precision
IsMuchSmallerThan(a, b) == Abs(a) * PrecDen <= Abs(b)

\* ------------------------------------------------------------------ QR step
\* line 489: td = (diag[end-1] - diag[end]) * 0.5
ShiftTd(diag, end) == Mul(diag[end - 1] - diag[end], Half)

\* line 490: e2 = ei_abs2(subdiag[end-1])
ShiftE2(subdiag, end) == Mul(subdiag[end - 1], subdiag[end - 1])

\* line 491: the divisor td + (td>0 ? 1 : -1) * sqrt(td*td + e2)
ShiftDenominator(td, e2) == td + (IF td > 0 THEN 1 ELSE -1) * Sqrt(Mul(td, td) + e2)

\* The Wilkinson shift of the trailing 2x2 block at (end-1, end).
WilkinsonShift(diag, subdiag, end) ==
  LET td == ShiftTd(diag, end)
      e2 == ShiftE2(subdiag, end)
  IN diag[end] - Div(e2, ShiftDenominator(td, e2))

\* an iteration that updates subdiag[k-1] at the first row of the block too
QRIterationUnguarded(st, k, start, end, hasQ) ==
  LET rot == MakeGivens(st.x, st.z)
      c == rot.c
      s == rot.s
      d == st.diag
      e == st.subdiag
      sdk == Mul(s, d[k]) + Mul(c, e[k])
      dkp1 == Mul(s, e[k]) + Mul(c, d[k + 1])
      dk == Mul(c, Mul(c, d[k]) - Mul(s, e[k]))
              - Mul(s, Mul(c, e[k]) - Mul(s, d[k + 1]))
      d2 == [d EXCEPT ![k] = dk, ![k + 1] = Mul(s, sdk) + Mul(c, dkp1)]
      e1 == [e EXCEPT ![k] = Mul(c, sdk) - Mul(s, dkp1)]
      e2 == IF k > 0
              THEN [e1 EXCEPT ![k - 1] = Mul(c, e1[k - 1]) - Mul(s, st.z)]
              ELSE e1
      e3 == IF k < end - 1
              THEN [e2 EXCEPT ![k + 1] = Mul(c, e2[k + 1])]
              ELSE e2
  IN [diag |-> d2,
      subdiag |-> e3,
      x |-> e2[k],
      z |-> IF k < end - 1 THEN Mul(-s, e2[k + 1]) ELSE st.z,
      q |-> IF hasQ THEN ApplyOnTheRight(st.q, k, rot) ELSE st.q]

\* One iteration k of the loop of ei_tridiagonal_qr_step on the state
\* st = [diag, subdiag, x, z, q]; hasQ tells whether matrixQ is non-null.
QRIteration(st, k, start, end, hasQ) ==
  LET rot == MakeGivens(st.x, st.z)
      c == rot.c
      s == rot.s
      d == st.diag
      e == st.subdiag
      sdk == Mul(s, d[k]) + Mul(c, e[k])
      dkp1 == Mul(s, e[k]) + Mul(c, d[k + 1])
      dk == Mul(c, Mul(c, d[k]) - Mul(s, e[k]))
              - Mul(s, Mul(c, e[k]) - Mul(s, d[k + 1]))
      d2 == [d EXCEPT ![k] = dk, ![k + 1] = Mul(s, sdk) + Mul(c, dkp1)]
      e1 == [e EXCEPT ![k] = Mul(c, sdk) - Mul(s, dkp1)]
      e2 == IF k > start
              THEN [e1 EXCEPT ![k - 1] = Mul(c, e1[k - 1]) - Mul(s, st.z)]
              ELSE e1
      e3 == IF k < end - 1
              THEN [e2 EXCEPT ![k + 1] = Mul(c, e2[k + 1])]
              ELSE e2
  IN [diag |-> d2,
      subdiag |-> e3,
      x |-> e2[k],
      z |-> IF k < end - 1 THEN Mul(-s, e2[k + 1]) ELSE st.z,
      q |-> IF hasQ THEN ApplyOnTheRight(st.q, k, rot) ELSE st.q]

RECURSIVE QRLoop(_, _, _, _, _)
QRLoop(st, k, start, end, hasQ) ==
  IF k < end
    THEN QRLoop(QRIteration(st, k, start, end, hasQ), k + 1, start, end, hasQ)
    ELSE st

\* a sweep that changes nothing
TridiagonalQRStepStalled(diag, subdiag, start, end, q, hasQ) ==
  [diag |-> diag, subdiag |-> subdiag, x |-> 0, z |-> 0, q |-> q]

\* ei_tridiagonal_qr_step(diag, subdiag, start, end, matrixQ, n)
TridiagonalQRStep(diag, subdiag, start, end, q, hasQ) ==
  LET mu == WilkinsonShift(diag, subdiag, end)
  IN QRLoop([diag |-> diag, subdiag |-> subdiag,
             x |-> diag[start] - mu, z |-> subdiag[start], q |-> q],
            start, start, end, hasQ)

\* ------------------------------------------------------------------ driver pieces
\* nothing is set to zero
ZeroNegligibleSkipped(diag, subdiag, start, end) == subdiag

\* only the last entry of the block is tested
ZeroNegligibleLast(diag, subdiag, start, end) ==
  [j \in DOMAIN subdiag |->
     IF j = end - 1
          /\ IsMuchSmallerThan(Abs(subdiag[j]), Abs(diag[j]) + Abs(diag[j + 1]))
       THEN 0 ELSE subdiag[j]]

\* lines 415-417: zero the negligible sub-diagonal entries of [start, end)
ZeroNegligible(diag, subdiag, start, end) ==
  [j \in DOMAIN subdiag |->
     IF j >= start /\ j < end
          /\ IsMuchSmallerThan(Abs(subdiag[j]), Abs(diag[j]) + Abs(diag[j + 1]))
       THEN 0 ELSE subdiag[j]]

\* end is decremented without the test of the entry
ShrinkEndUntested(subdiag, end) == IF end > 0 THEN end - 1 ELSE end

\* lines 420-421: while (end>0 && m_subdiag[end-1]==0) end--
RECURSIVE ShrinkEnd(_, _)
ShrinkEnd(subdiag, end) ==
  IF end > 0 /\ subdiag[end - 1] = 0 THEN ShrinkEnd(subdiag, end - 1) ELSE end

\* start is not walked back
WalkStartNowhere(subdiag, start) == start

\* lines 424-426: start = end - 1; while (start>0 && m_subdiag[start-1]!=0) start--
RECURSIVE WalkStart(_, _)
WalkStart(subdiag, start) ==
  IF start > 0 /\ subdiag[start - 1] # 0 THEN WalkStart(subdiag, start - 1) ELSE start

FindStart(subdiag, end) == WalkStart(subdiag, end - 1)

\* m_eivalues.segment(i, n-i).minCoeff(&k): the index, relative to i, of the
\* first smallest coefficient of the segment
MinCoeffIndex(v, i, n) ==
  LET seg == i .. n - 1
      m == CHOOSE a \in seg : (\A b \in seg : v[a] <= v[b])
                              /\ (\A b \in seg : v[b] = v[a] => a <= b)
  IN m - i

\* lines 436-442: the body of the sort loop, on [values, vectors]
SortIteration(r, i, n) ==
  LET k == MinCoeffIndex(r.values, i, n)
  IN IF k > 0
       THEN [values |-> SwapVec(r.values, i, k + i),
             vectors |-> SwapCols(r.vectors, i, k + i)]
       ELSE r

\* lines 434-443: the iterations i, i+1, ..., n-2 of the sort loop
RECURSIVE SortFrom(_, _, _)
SortFrom(r, i, n) == IF i < n - 1 THEN SortFrom(SortIteration(r, i, n), i + 1, n) ELSE r

\* lines 413-429: the passes of while (end>0) from the state
\* st = [diag, subdiag, q], with start and end as the last pass left them
RECURSIVE DeflationLoop(_, _, _, _)
DeflationLoop(st, start, end, hasQ) ==
  IF end <= 0 THEN st
  ELSE LET sub == ZeroNegligible(st.diag, st.subdiag, start, end)
           e == ShrinkEnd(sub, end)
           s == FindStart(sub, e)
           r == TridiagonalQRStep(st.diag, sub, s, e, st.q, hasQ)
       IN IF e <= 0 THEN [st EXCEPT !.subdiag = sub]
          ELSE DeflationLoop([diag |-> r.diag, subdiag |-> r.subdiag, q |-> r.q], s, e, hasQ)

\* lines 393-444 as one function: the eigenvalues compute leaves for the
\* matrix M, which are the same for either value of computeEigenvectors
EigenvaluesOf(M) ==
  LET k == M.cols
      st == DeflationLoop([diag |-> TridiagDiagonal(M), subdiag |-> TridiagSubDiagonal(M),
                           q |-> Identity(k)], 0, k - 1, FALSE)
  IN IF k = 1 THEN [j \in 0 .. 0 |-> M.coeff[<<0, 0>>]]
     ELSE SortFrom([values |-> st.diag, vectors |-> st.q], 0, k).values

\* lines 393-444 as one function: the eigenvectors compute leaves for the
\* matrix M when computeEigenvectors is true
EigenvectorsOf(M) ==
  LET k == M.cols
      st == DeflationLoop([diag |-> TridiagDiagonal(M), subdiag |-> TridiagSubDiagonal(M),
                           q |-> TridiagMatrixQ(M)], 0, k - 1, TRUE)
  IN IF k = 1 THEN Mat(1, 1, OnesCoeff)
     ELSE SortFrom([values |-> st.diag, vectors |-> st.q], 0, k).vectors

\* ------------------------------------------------------------------ Cholesky
RECURSIVE SumUpTo(_, _)
SumUpTo(v, k) == IF k <= 0 THEN 0 ELSE v[k - 1] + SumUpTo(v, k - 1)

\* the sum of the coefficients of a vector
Sum(v) == SumUpTo(v, Size(v))

\* Column k of the in-place lower Cholesky factorization of M (LLT, unblocked):
\* x = M(k,k) - |row k left of the diagonal|^2; a pivot x <= 0 stops the
\* factorization and leaves the rest of M as it is.
LLTColumn(M, k) ==
  LET a == M.coeff
      x == a[<<k, k>>] - Sum([j \in 0 .. k - 1 |-> Mul(a[<<k, j>>], a[<<k, j>>])])
      d == Sqrt(x)
      inv == Div(One, d)
  IN IF x <= 0 THEN [ok |-> FALSE, m |-> M]
     ELSE [ok |-> TRUE,
           m |-> [M EXCEPT !.coeff = [p \in DOMAIN a |->
                    IF p = <<k, k>> THEN d
                    ELSE IF p[2] = k /\ p[1] > k
                      THEN Mul(a[p] - Sum([j \in 0 .. k - 1 |->
                                             Mul(a[<<p[1], j>>], a[<<k, j>>])]), inv)
                    ELSE a[p]]]]

RECURSIVE LLTFrom(_, _)
LLTFrom(M, k) ==
  IF k >= M.rows THEN [info |-> "Success", m |-> M]
  ELSE LET r == LLTColumn(M, k)
       IN IF r.ok THEN LLTFrom(r.m, k + 1) ELSE [info |-> "NumericalIssue", m |-> M]

\* LLT<MatrixType> cholB(matB): the factor is kept in the lower triangle of m
LLT(B) == LLTFrom(B, 0)

\* forward substitution L x = b on one column, rows i .. n-1 still to do
RECURSIVE ForwardSubst(_, _, _)
ForwardSubst(L, x, i) ==
  IF i >= L.rows THEN x
  ELSE ForwardSubst(L,
         [x EXCEPT ![i] = Div(x[i] - Sum([j \in 0 .. i - 1 |-> Mul(L.coeff[<<i, j>>], x[j])]),
                              L.coeff[<<i, i>>])],
         i + 1)

\* back substitution L^T x = b on one column, rows i .. 0 still to do
RECURSIVE BackSubst(_, _, _)
BackSubst(L, x, i) ==
  IF i < 0 THEN x
  ELSE BackSubst(L,
         [x EXCEPT ![i] = Div(x[i] - Sum([j \in 0 .. L.rows - 2 - i |->
                                            Mul(L.coeff[<<i + 1 + j, i>>], x[i + 1 + j])]),
                              L.coeff[<<i, i>>])],
         i - 1)

\* cholB.matrixL().solveInPlace(M): M = inv(L) * M, column by column
SolveLowerInPlace(L, M) ==
  LET sol == [j \in 0 .. M.cols - 1 |-> ForwardSubst(L, Col(M, j), 0)]
  IN [M EXCEPT !.coeff = [p \in DOMAIN M.coeff |-> sol[p[2]][p[1]]]]

\* cholB.matrixU().solveInPlace(M): M = inv(L^T) * M, column by column
SolveUpperInPlace(L, M) ==
  LET sol == [j \in 0 .. M.cols - 1 |-> BackSubst(L, Col(M, j), L.rows - 1)]
  IN [M EXCEPT !.coeff = [p \in DOMAIN M.coeff |-> sol[p[2]][p[1]]]]

\* m_eivec.col(i) = m_eivec.col(i).normalized() for every column
NormalizeCols(M) ==
  LET norm == [j \in 0 .. M.cols - 1 |->
                 Sqrt(Sum([i \in 0 .. M.rows - 1 |->
                             Mul(M.coeff[<<i, j>>], M.coeff[<<i, j>>])]))]
  IN [M EXCEPT !.coeff = [p \in DOMAIN M.coeff |-> Div(M.coeff[p], norm[p[2]])]]

\* lines 457-462: C = inv(L) A inv(L'), on a copy of matA
ReduceToStandard(L, matA) ==
  LET matC == matA
      c1 == SolveLowerInPlace(L, matC)
      c2 == Transpose(c1)
      c3 == SolveLowerInPlace(L, c2)
  IN Transpose(c3)

\* ------------------------------------------------------------------ inputs
DiagVals == {0, One, 2 * One}

SubVals == {0, One \div 8, One}

\* the symmetric tridiagonal matrix with diagonal d and sub-diagonal e
SymTridiagOf(n, d, e) ==
  [rows |-> n, cols |-> n,
   coeff |-> [p \in (0 .. n - 1) \X (0 .. n - 1) |->
     IF p[1] = p[2] THEN d[p[1]]
     ELSE IF p[1] = p[2] + 1 THEN e[p[2]]
     ELSE IF p[2] = p[1] + 1 THEN e[p[1]]
     ELSE 0]]

\* diagonal 2, 1, 0, 2, ...
RampDiag(n) == [k \in 0 .. n - 1 |-> ((2 * n - k) % 3) * One]

ConstVec(n, v) == [k \in 0 .. n - 1 |-> v]

\* one matrix per size: the ramp over a sub-diagonal of ones
Ramp(n) == SymTridiagOf(n, RampDiag(n), ConstVec(n - 1, One))

\* every diagonal matrix over DiagVals, and every sub-diagonal over SubVals
\* under three diagonals: all equal, all zero, and the ramp
SymTridiag(n) ==
  {SymTridiagOf(n, d, ConstVec(n - 1, 0)) : d \in [0 .. n - 1 -> DiagVals]}
  \cup {SymTridiagOf(n, d, e) : d \in {ConstVec(n, One), ConstVec(n, 0), RampDiag(n)},
                                e \in [0 .. n - 2 -> SubVals]}

\* the matrices A of a pencil: sub-diagonals of 0 and 1 under the same diagonals
PencilLeft(n) ==
  {SymTridiagOf(n, d, e) : d \in {ConstVec(n, One), ConstVec(n, 0), RampDiag(n)},
                           e \in [0 .. n - 2 -> {0, One}]}

Sizes == 0 .. MaxN

\* one matrix beyond the family: the ramp of extent MaxN + 1 over a
\* sub-diagonal of ones with a zero before its last entry, which cuts the
\* trailing 2x2 block off from the leading block
SplitExample ==
  SymTridiagOf(MaxN + 1, RampDiag(MaxN + 1),
               [j \in 0 .. MaxN - 1 |-> IF j = MaxN - 2 THEN 0 ELSE One])

\* The first call on the object ranges over the whole family, later calls
\* over one matrix of each size.
Squares(first) ==
  IF first THEN UNION {SymTridiag(k) : k \in Sizes} \cup {SplitExample}
           ELSE {Ramp(k) : k \in Sizes}

NonSquares(first) ==
  {Mat(q[1], q[2], OnesCoeff) :
     q \in {q \in Sizes \X Sizes : q[1] # q[2] /\ (first \/ q[1] + q[2] = 3)}}

Scaled(M, f) == [M EXCEPT !.coeff = [p \in DOMAIN M.coeff |-> f * M.coeff[p]]]

\* a positive definite B: [[4,2],[2,5]] = L L' with L = [[2,0],[1,2]] for n = 2,
\* the diagonal matrix 4, 1, 4, ... otherwise
SpdExample(k) ==
  IF k = 2 THEN SymTridiagOf(2, [j \in 0 .. 1 |-> (4 + j) * One], [j \in 0 .. 0 |-> 2 * One])
  ELSE SymTridiagOf(k, [j \in 0 .. k - 1 |-> IF j % 2 = 0 THEN 4 * One ELSE One],
                    ConstVec(k - 1, 0))

\* matrices B that are not positive definite: -I, and [[1,2],[2,1]] for n = 2
NotPdExamples(k) ==
  {Scaled(Identity(k), -1)} \cup
  (IF k = 2 THEN {SymTridiagOf(2, ConstVec(2, One), ConstVec(1, 2 * One))} ELSE {})

PencilRight(k) == {Identity(k), SpdExample(k)} \cup NotPdExamples(k)

\* pencils of matching extents, and a few whose extents break the precondition
Pencils(first) ==
  UNION {{<<A, B>> : A \in (IF first THEN PencilLeft(k) ELSE {Ramp(k)}),
                     B \in PencilRight(k)} : k \in Sizes}
  \cup {<<Identity(2), Identity(1)>>, <<Identity(1), Identity(2)>>,
        <<Mat(1, 2, OnesCoeff), Identity(1)>>, <<Mat(2, 1, OnesCoeff), Identity(2)>>,
        <<Identity(2), Mat(2, 1, OnesCoeff)>>, <<Identity(1), Mat(1, 2, OnesCoeff)>>}

Empty == Mat(0, 0, IndetOf2)

NoFactor == [info |-> "none", m |-> Empty]

NoPairs == [values |-> <<>>, vectors |-> Empty]

\* no matrix function was returned
NoFunction == [op |-> "none", vectors |-> Empty, values |-> <<>>]

\* a matrix of the MatrixPower object that was not assigned yet
Unset == [set |-> FALSE, exp |-> 0, times |-> "none"]

\* m_conditionNumber as the quotient num/den; MatrixPower(A) passes 0
ZeroCondition == [num |-> 0, den |-> 1]

\* ------------------------------------------------------------------ state
VARIABLES
  pc,                   \* position of the program
  m_eivec,              \* SelfAdjointEigenSolver::m_eivec
  m_eivalues,           \* SelfAdjointEigenSolver::m_eivalues (the array diag)
  m_subdiag,            \* SelfAdjointEigenSolver::m_subdiag
  m_eigenvectorsOk,     \* SelfAdjointEigenSolver::m_eigenvectorsOk
  form,                 \* which compute the user called: "std" or "gen"
  matA, matB,           \* the caller's matrices, passed by const reference
  matrix,               \* the argument of compute(matrix, computeEigenvectors)
  computeEigenvectors,  \* the flag of the most recent call
  n, start, end, i,     \* locals of compute
  matC, cholB,          \* locals of the generalized compute
  calls,                \* number of compute calls made on the object
  query,                \* outcome of the last eigenvectors() since the last call
  functionOut,          \* what the last operatorSqrt() or operatorInverseSqrt() returned
  violation,            \* the assertion that ended the program, if any
  invoked,              \* what the running call has executed so far
  unsorted              \* [values, vectors] as the deflation loop left them

\* the variables of the SelfAdjointEigenSolver object and of its running call
eigenVars == <<pc, m_eivec, m_eivalues, m_subdiag, m_eigenvectorsOk, form, matA, matB,
               matrix, computeEigenvectors, n, start, end, i, matC, cholB, calls,
               query, functionOut, violation, invoked, unsorted>>

VARIABLES
  minorPc,              \* "none", "built" or "aborted": the life of one Minor expression
  m_matrix,             \* Minor::m_matrix, the matrix the minor is taken of
  m_row, m_col,         \* Minor::m_row, Minor::m_col
  minorOut              \* the coefficients of the minor read so far, each with
                        \* the place of m_matrix it was read from

minorVars == <<minorPc, m_matrix, m_row, m_col, minorOut>>

VARIABLES
  powPc,                \* position of the MatrixPower object and of its running compute
  m_A,                  \* MatrixPowerBase::m_A, the base
  m_conditionNumber,    \* MatrixPowerBase::m_conditionNumber, [num, den]
  m_T, m_U,             \* MatrixPower::m_T, m_U: the saved Schur factors
  m_fT,                 \* MatrixPower::m_fT
  m_tmp1, m_tmp2,       \* MatrixPowerBase::m_tmp1, m_tmp2
  powForm,              \* which compute runs: "res" or "b"
  powP,                 \* the exponent p of the running call, in units of 1/ExpUnit
  powIntpart, powX,     \* intpart and x of compute
  powRes,               \* the result matrix res of the running call
  powCalls,             \* number of compute calls made on the object
  schurCount,           \* number of Schur decompositions computed so far
  fracCalls             \* number of calls so far whose exponent had a fractional part

powerVars == <<powPc, m_A, m_conditionNumber, m_T, m_U, m_fT, m_tmp1, m_tmp2, powForm,
               powP, powIntpart, powX, powRes, powCalls, schurCount, fracCalls>>

vars == <<eigenVars, minorVars, powerVars>>

solver == <<m_eivec, m_eivalues, m_subdiag, m_eigenvectorsOk>>

locals == <<n, start, end, i>>

genLocals == <<matC, cholB>>

args == <<form, matA, matB, matrix, computeEigenvectors>>

\* SelfAdjointEigenSolver(Index size), and SelfAdjointEigenSolver() of a
\* fixed-size type of that size: the storage is allocated and not written,
\* m_eigenvectorsOk is not initialised by either constructor.
Init ==
  /\ pc = "idle"
  /\ \E size \in Sizes :
       /\ m_eivec = Mat(size, size, IndetOf2)
       /\ m_eivalues = Vec(size, IndetOf)
       /\ m_subdiag = Vec(IF size > 1 THEN size - 1 ELSE 1, IndetOf)
  /\ m_eigenvectorsOk \in BOOLEAN
  /\ form = "none"
  /\ matA = Empty
  /\ matB = Empty
  /\ matrix = Empty
  /\ computeEigenvectors = FALSE
  /\ n = 0 /\ start = 0 /\ end = 0 /\ i = 0
  /\ matC = Empty
  /\ cholB = NoFactor
  /\ calls = 0
  /\ query = "none"
  /\ functionOut = NoFunction
  /\ violation = "none"
  /\ invoked = {}
  /\ unsorted = NoPairs
  /\ minorPc = "none"
  /\ m_matrix = Empty
  /\ m_row = 0 /\ m_col = 0
  /\ minorOut = <<>>
  /\ powPc = "none"
  /\ m_A = Empty
  /\ m_conditionNumber = ZeroCondition
  /\ m_T = Empty /\ m_U = Empty
  /\ m_fT = Unset /\ m_tmp1 = Unset /\ m_tmp2 = Unset
  /\ powForm = "none"
  /\ powP = 0 /\ powIntpart = 0 /\ powX = 0
  /\ powRes = Unset
  /\ powCalls = 0
  /\ schurCount = 0
  /\ fracCalls = 0

\* ------------------------------------------------------------------ calls
\* the user calls compute(matrix, computeEigenvectors)
CallCompute ==
  /\ pc = "idle"
  /\ calls < MaxCalls
  /\ \E M \in Squares(calls = 0) \cup NonSquares(calls = 0), flag \in BOOLEAN :
       /\ matA' = M
       /\ matrix' = M
       /\ computeEigenvectors' = flag
  /\ matB' = Empty
  /\ form' = "std"
  /\ calls' = calls + 1
  /\ query' = "none"
  /\ functionOut' = NoFunction
  /\ invoked' = {}
  /\ pc' = "std_entry"
  /\ UNCHANGED <<solver, locals, genLocals, violation, unsorted>>
  /\ UNCHANGED <<minorVars, powerVars>>

\* the user calls compute(matA, matB, computeEigenvectors)
CallComputeGeneralized ==
  /\ pc = "idle"
  /\ calls < MaxCalls
  /\ \E P \in Pencils(calls = 0), flag \in BOOLEAN :
       /\ matA' = P[1]
       /\ matB' = P[2]
       /\ computeEigenvectors' = flag
  /\ matrix' = Empty
  /\ form' = "gen"
  /\ calls' = calls + 1
  /\ query' = "none"
  /\ functionOut' = NoFunction
  /\ invoked' = {}
  /\ pc' = "gen_entry"
  /\ UNCHANGED <<solver, locals, genLocals, violation, unsorted>>
  /\ UNCHANGED <<minorVars, powerVars>>

\* ------------------------------------------------------------------ compute(matrix, flag)
\* the flag, once set by a call, stays set
StdEntrySticky ==
  /\ pc = "std_entry"
  /\ m_eigenvectorsOk' = (m_eigenvectorsOk \/ computeEigenvectors)
  /\ IF matrix.cols = matrix.rows
       THEN pc' = "std_resize" /\ UNCHANGED violation
       ELSE pc' = "aborted" /\ violation' = "compute: not square"
  /\ UNCHANGED <<m_eivec, m_eivalues, m_subdiag, args, locals, genLocals, calls,
                 query, functionOut, invoked, unsorted>>
  /\ UNCHANGED <<minorVars, powerVars>>

\* the storage is resized before the extents are looked at
StdEntryResizeFirst ==
  /\ pc = "std_entry"
  /\ m_eigenvectorsOk' = computeEigenvectors
  /\ m_eivalues' = ResizeVec(m_eivalues, matrix.cols)
  /\ m_eivec' = ResizeMat(m_eivec, matrix.cols, matrix.cols)
  /\ invoked' = invoked \cup {"resize"}
  /\ IF matrix.cols = matrix.rows
       THEN pc' = "std_resize" /\ UNCHANGED violation
       ELSE pc' = "aborted" /\ violation' = "compute: not square"
  /\ UNCHANGED <<m_subdiag, args, locals, genLocals, calls, query, functionOut, unsorted>>
  /\ UNCHANGED <<minorVars, powerVars>>

\* lines 389-392: record the flag, then assert(matrix.cols() == matrix.rows())
StdEntry ==
  /\ pc = "std_entry"
  /\ m_eigenvectorsOk' = computeEigenvectors
  /\ IF matrix.cols = matrix.rows
       THEN pc' = "std_resize" /\ UNCHANGED violation
       ELSE pc' = "aborted" /\ violation' = "compute: not square"
  /\ UNCHANGED <<m_eivec, m_eivalues, m_subdiag, args, locals, genLocals, calls,
                 query, functionOut, invoked, unsorted>>
  /\ UNCHANGED <<minorVars, powerVars>>

\* lines 393-395: n = matrix.cols(); resize the eigenvalues and the eigenvectors
StdResize ==
  /\ pc = "std_resize"
  /\ n' = matrix.cols
  /\ m_eivalues' = ResizeVec(m_eivalues, matrix.cols)
  /\ m_eivec' = ResizeMat(m_eivec, matrix.cols, matrix.cols)
  /\ pc' = IF matrix.cols = 1 THEN "std_trivial" ELSE "std_tridiag"
  /\ invoked' = invoked \cup {"resize"}
  /\ UNCHANGED <<m_subdiag, m_eigenvectorsOk, args, start, end, i, genLocals, calls,
                 query, functionOut, violation, unsorted>>
  /\ UNCHANGED <<minorVars, powerVars>>

\* the eigenvector is written only when it was asked for
StdTrivialOnDemand ==
  /\ pc = "std_trivial"
  /\ m_eivalues' = [m_eivalues EXCEPT ![0] = matrix.coeff[<<0, 0>>]]
  /\ m_eivec' = IF computeEigenvectors THEN Mat(m_eivec.rows, m_eivec.cols, OnesCoeff)
                ELSE m_eivec
  /\ pc' = "std_return"
  /\ UNCHANGED <<m_subdiag, m_eigenvectorsOk, args, locals, genLocals, calls, query, functionOut,
                 violation, invoked, unsorted>>
  /\ UNCHANGED <<minorVars, powerVars>>

\* lines 397-402: if(n==1) the eigenvalue is the coefficient, the vectors all ones
StdTrivial ==
  /\ pc = "std_trivial"
  /\ m_eivalues' = [m_eivalues EXCEPT ![0] = matrix.coeff[<<0, 0>>]]
  /\ m_eivec' = Mat(m_eivec.rows, m_eivec.cols, OnesCoeff)
  /\ pc' = "std_return"
  /\ UNCHANGED <<m_subdiag, m_eigenvectorsOk, args, locals, genLocals, calls, query, functionOut,
                 violation, invoked, unsorted>>
  /\ UNCHANGED <<minorVars, powerVars>>

\* end and start keep what the previous run of the loop left in them
StdTridiagStaleBlock ==
  /\ pc = "std_tridiag"
  /\ invoked' = invoked \cup {"tridiag"}
  /\ \/ /\ n = 0
        /\ pc' = "aborted"
        /\ violation' = "tridiagonalization: empty matrix"
        /\ UNCHANGED <<m_eivalues, m_subdiag, m_eivec, start, end>>
     \/ /\ m_eivalues' = TridiagDiagonal(matrix)
        /\ m_subdiag' = TridiagSubDiagonal(matrix)
        /\ m_eivec' = IF computeEigenvectors THEN TridiagMatrixQ(matrix) ELSE m_eivec
        /\ UNCHANGED <<start, end>>
        /\ pc' = "std_loop"
        /\ UNCHANGED violation
  /\ UNCHANGED <<m_eigenvectorsOk, args, n, i, genLocals, calls, query, functionOut, unsorted>>
  /\ UNCHANGED <<minorVars, powerVars>>

\* lines 404-412: tridiagonalize; copy the diagonal, the sub-diagonal and, if
\* asked for, matrixQ(); end = n-1, start = 0.
\* On a 0x0 matrix Tridiagonalization::compute resizes its Householder
\* coefficients to n-1 = -1: the library either stops there or hands back
\* empty vectors.
StdTridiag ==
  /\ pc = "std_tridiag"
  /\ invoked' = invoked \cup {"tridiag"}
  /\ \/ /\ n = 0
        /\ pc' = "aborted"
        /\ violation' = "tridiagonalization: empty matrix"
        /\ UNCHANGED <<m_eivalues, m_subdiag, m_eivec, start, end>>
     \/ /\ m_eivalues' = TridiagDiagonal(matrix)
        /\ m_subdiag' = TridiagSubDiagonal(matrix)
        /\ m_eivec' = IF computeEigenvectors THEN TridiagMatrixQ(matrix) ELSE m_eivec
        /\ end' = n - 1
        /\ start' = 0
        /\ pc' = "std_loop"
        /\ UNCHANGED violation
  /\ UNCHANGED <<m_eigenvectorsOk, args, n, i, genLocals, calls, query, functionOut, unsorted>>
  /\ UNCHANGED <<minorVars, powerVars>>

\* lines 413-426: one pass of while (end>0) up to the call of the QR step
StdDeflate ==
  /\ pc = "std_loop"
  /\ end > 0
  /\ LET sub == ZeroNegligible(m_eivalues, m_subdiag, start, end)
         e == ShrinkEnd(sub, end)
     IN /\ m_subdiag' = sub
        /\ end' = e
        /\ IF e <= 0
             THEN /\ pc' = "std_sort"
                  /\ unsorted' = [values |-> m_eivalues, vectors |-> m_eivec]
                  /\ UNCHANGED start
             ELSE /\ pc' = "std_qr"
                  /\ start' = FindStart(sub, e)
                  /\ UNCHANGED unsorted
  /\ invoked' = invoked \cup {"deflate"}
  /\ UNCHANGED <<m_eivec, m_eivalues, m_eigenvectorsOk, args, n, i, genLocals, calls,
                 query, functionOut, violation>>
  /\ UNCHANGED <<minorVars, powerVars>>

\* line 413: while (end>0) is left without a pass
StdLoopExit ==
  /\ pc = "std_loop"
  /\ end <= 0
  /\ pc' = "std_sort"
  /\ unsorted' = [values |-> m_eivalues, vectors |-> m_eivec]
  /\ UNCHANGED <<solver, args, locals, genLocals, calls, query, functionOut, violation, invoked>>
  /\ UNCHANGED <<minorVars, powerVars>>

\* line 428: ei_tridiagonal_qr_step on the block [start, end]
StdQRStep ==
  /\ pc = "std_qr"
  /\ LET r == TridiagonalQRStep(m_eivalues, m_subdiag, start, end, m_eivec,
                                computeEigenvectors)
     IN /\ m_eivalues' = r.diag
        /\ m_subdiag' = r.subdiag
        /\ m_eivec' = r.q
  /\ invoked' = invoked \cup {"qr"}
  /\ pc' = "std_loop"
  /\ UNCHANGED <<m_eigenvectorsOk, args, locals, genLocals, calls, query, functionOut, violation,
                 unsorted>>
  /\ UNCHANGED <<minorVars, powerVars>>

\* lines 434-443: one iteration of the sort
StdSortStep ==
  /\ pc = "std_sort"
  /\ i < n - 1
  /\ LET r == SortIteration([values |-> m_eivalues, vectors |-> m_eivec], i, n)
     IN /\ m_eivalues' = r.values
        /\ m_eivec' = r.vectors
  /\ i' = i + 1
  /\ invoked' = invoked \cup {"sort"}
  /\ UNCHANGED <<pc, m_subdiag, m_eigenvectorsOk, args, n, start, end, genLocals,
                 calls, query, functionOut, violation, unsorted>>
  /\ UNCHANGED <<minorVars, powerVars>>

\* line 434: the sort loop is left
StdSortExit ==
  /\ pc = "std_sort"
  /\ i >= n - 1
  /\ pc' = "std_return"
  /\ UNCHANGED <<solver, args, locals, genLocals, calls, query, functionOut, violation, invoked,
                 unsorted>>
  /\ UNCHANGED <<minorVars, powerVars>>

\* lines 401, 444: return *this, to the user or to the generalized compute;
\* the locals of the call end here
StdReturn ==
  /\ pc = "std_return"
  /\ n' = 0 /\ start' = 0 /\ end' = 0 /\ i' = 0
  /\ matrix' = Empty
  /\ unsorted' = NoPairs
  /\ IF form = "gen"
       THEN pc' = "gen_back" /\ UNCHANGED <<matA, matB, invoked>>
       ELSE pc' = "idle" /\ matA' = Empty /\ matB' = Empty /\ invoked' = {}
  /\ UNCHANGED <<solver, form, computeEigenvectors, genLocals, calls, query, functionOut, violation>>
  /\ UNCHANGED <<minorVars, powerVars>>

\* ------------------------------------------------------------------ compute(matA, matB, flag)
\* line 451: ei_assert on the extents of matA and matB
GenEntry ==
  /\ pc = "gen_entry"
  /\ IF matA.cols = matA.rows /\ matB.rows = matA.rows /\ matB.cols = matB.rows
       THEN pc' = "gen_chol" /\ UNCHANGED violation
       ELSE pc' = "aborted" /\ violation' = "compute: pencil extents"
  /\ UNCHANGED <<solver, args, locals, genLocals, calls, query, functionOut, invoked, unsorted>>
  /\ UNCHANGED <<minorVars, powerVars>>

\* line 454: LLT<MatrixType> cholB(matB)
GenCholesky ==
  /\ pc = "gen_chol"
  /\ cholB' = LLT(matB)
  /\ invoked' = invoked \cup {"llt"}
  /\ pc' = "gen_reduce"
  /\ UNCHANGED <<solver, args, locals, matC, calls, query, functionOut, violation, unsorted>>
  /\ UNCHANGED <<minorVars, powerVars>>

\* the solves act on the caller's matA itself
GenReduceInPlace ==
  /\ pc = "gen_reduce"
  /\ matA' = ReduceToStandard(cholB.m, matA)
  /\ matC' = ReduceToStandard(cholB.m, matA)
  /\ invoked' = invoked \cup {"solve"}
  /\ pc' = "gen_driver"
  /\ UNCHANGED <<solver, form, matB, matrix, computeEigenvectors, locals, cholB, calls,
                 query, functionOut, violation, unsorted>>
  /\ UNCHANGED <<minorVars, powerVars>>

\* lines 456-462: matC = inv(L) matA inv(L'); the outcome of the
\* factorization is not looked at
GenReduce ==
  /\ pc = "gen_reduce"
  /\ matC' = ReduceToStandard(cholB.m, matA)
  /\ invoked' = invoked \cup {"solve"}
  /\ pc' = "gen_driver"
  /\ UNCHANGED <<solver, args, locals, cholB, calls, query, functionOut, violation, unsorted>>
  /\ UNCHANGED <<minorVars, powerVars>>

\* line 471: compute(matC, computeEigenvectors)
GenDriver ==
  /\ pc = "gen_driver"
  /\ matrix' = matC
  /\ invoked' = invoked \cup {"driver"}
  /\ pc' = "std_entry"
  /\ UNCHANGED <<solver, form, matA, matB, computeEigenvectors, locals, genLocals,
                 calls, query, functionOut, violation, unsorted>>
  /\ UNCHANGED <<minorVars, powerVars>>

\* the back-transform runs whatever the flag says
GenBackTransformAlways ==
  /\ pc = "gen_back"
  /\ m_eivec' = NormalizeCols(SolveUpperInPlace(cholB.m, m_eivec))
  /\ invoked' = invoked \cup {"backtransform"}
  /\ pc' = "gen_return"
  /\ UNCHANGED <<m_eivalues, m_subdiag, m_eigenvectorsOk, args, locals, genLocals,
                 calls, query, functionOut, violation, unsorted>>
  /\ UNCHANGED <<minorVars, powerVars>>

\* lines 473-479: evecs = inv(U) * evecs, then every column normalized
GenBackTransform ==
  /\ pc = "gen_back"
  /\ IF computeEigenvectors
       THEN /\ m_eivec' = NormalizeCols(SolveUpperInPlace(cholB.m, m_eivec))
            /\ invoked' = invoked \cup {"backtransform"}
       ELSE UNCHANGED <<m_eivec, invoked>>
  /\ pc' = "gen_return"
  /\ UNCHANGED <<m_eivalues, m_subdiag, m_eigenvectorsOk, args, locals, genLocals,
                 calls, query, functionOut, violation, unsorted>>
  /\ UNCHANGED <<minorVars, powerVars>>

\* line 480: return *this; matC and cholB end here
GenReturn ==
  /\ pc = "gen_return"
  /\ matA' = Empty /\ matB' = Empty
  /\ matC' = Empty
  /\ cholB' = NoFactor
  /\ invoked' = {}
  /\ pc' = "idle"
  /\ UNCHANGED <<solver, form, matrix, computeEigenvectors, locals, calls, query, functionOut,
                 violation, unsorted>>
  /\ UNCHANGED <<minorVars, powerVars>>

\* ------------------------------------------------------------------ eigenvectors()
\* lines 284-290: ei_assert(m_eigenvectorsOk); return m_eivec
Eigenvectors ==
  /\ pc = "idle"
  /\ IF m_eigenvectorsOk
       THEN query' = "returned" /\ UNCHANGED <<pc, violation>>
       ELSE /\ query' = "violation"
            /\ pc' = "aborted"
            /\ violation' = "eigenvectors: not computed"
  /\ UNCHANGED <<solver, args, locals, genLocals, calls, invoked, unsorted, functionOut>>
  /\ UNCHANGED <<minorVars, powerVars>>

\* ------------------------------------------------------------------ operatorSqrt()
\* The product m_eivec * f(m_eivalues).asDiagonal() * m_eivec.adjoint() is
\* kept by its operands: the function applied to the eigenvalues and the two
\* stored objects as they are when the product is evaluated.
MatrixFunction(op, vectors, values) == [op |-> op, vectors |-> vectors, values |-> values]

\* an operatorSqrt() that asserts the flag as eigenvectors() does
OperatorSqrtGuarded ==
  /\ pc = "idle"
  /\ IF m_eigenvectorsOk
       THEN /\ functionOut' = MatrixFunction("sqrt", m_eivec, m_eivalues)
            /\ UNCHANGED <<pc, violation>>
       ELSE /\ pc' = "aborted"
            /\ violation' = "operatorSqrt: not computed"
            /\ UNCHANGED functionOut
  /\ UNCHANGED <<solver, args, locals, genLocals, calls, invoked, unsorted, query>>
  /\ UNCHANGED <<minorVars, powerVars>>

\* lines 326-329: return m_eivec * m_eivalues.cwiseSqrt().asDiagonal() * m_eivec.adjoint()
OperatorSqrt ==
  /\ pc = "idle"
  /\ functionOut' = MatrixFunction("sqrt", m_eivec, m_eivalues)
  /\ UNCHANGED <<pc, violation>>
  /\ UNCHANGED <<solver, args, locals, genLocals, calls, invoked, unsorted, query>>
  /\ UNCHANGED <<minorVars, powerVars>>

\* lines 349-352: return m_eivec * m_eivalues.cwiseInverse().cwiseSqrt().asDiagonal()
\*                       * m_eivec.adjoint()
OperatorInverseSqrt ==
  /\ pc = "idle"
  /\ functionOut' = MatrixFunction("inverse_sqrt", m_eivec, m_eivalues)
  /\ UNCHANGED <<pc, violation>>
  /\ UNCHANGED <<solver, args, locals, genLocals, calls, invoked, unsorted, query>>
  /\ UNCHANGED <<minorVars, powerVars>>

\* ------------------------------------------------------------------ specification
Next ==
  \/ CallCompute
  \/ CallComputeGeneralized
  \/ StdEntry
  \/ StdResize
  \/ StdTrivial
  \/ StdTridiag
  \/ StdDeflate
  \/ StdLoopExit
  \/ StdQRStep
  \/ StdSortStep
  \/ StdSortExit
  \/ StdReturn
  \/ GenEntry
  \/ GenCholesky
  \/ GenReduce
  \/ GenDriver
  \/ GenBackTransform
  \/ GenReturn
  \/ Eigenvectors
  \/ OperatorSqrt
  \/ OperatorInverseSqrt

Spec == Init /\ [][Next]_vars

\* the statements of a running compute call: a call that was entered goes on
\* to its next statement
Statements ==
  \/ StdEntry
  \/ StdResize
  \/ StdTrivial
  \/ StdTridiag
  \/ StdDeflate
  \/ StdLoopExit
  \/ StdSortStep
  \/ StdSortExit
  \/ StdReturn
  \/ GenEntry
  \/ GenDriver
  \/ GenReturn

\* the control points inside a call of a numeric routine: the QR step, the
\* Cholesky factorization, the reduction and the back-transformation
InNumericCall == pc \in {"std_qr", "gen_chol", "gen_reduce", "gen_back"}

\* a running call goes on, and a call of a numeric routine returns
FairSpec == Spec /\ WF_vars(Statements) /\ []<>(~InNumericCall)

TypeOK ==
  /\ pc \in {"idle", "aborted", "std_entry", "std_resize", "std_trivial", "std_tridiag",
             "std_loop", "std_qr", "std_sort", "std_return", "gen_entry", "gen_chol",
             "gen_reduce", "gen_driver", "gen_back", "gen_return"}
  /\ m_eigenvectorsOk \in BOOLEAN
  /\ calls \in 0 .. MaxCalls
  /\ pc = "std_tridiag" => IsTridiagonal(matrix)

\* ------------------------------------------------------------------ Minor
\* the entries of the matrices a minor is taken of are all different
NumberedCoeff(r, c) == (2 * MaxN + 1) * r + c + 1

MinorInputs == {Mat(q[1], q[2], NumberedCoeff) : q \in Sizes \X Sizes}

\* the row is skipped from the removed one on
SkipIndexStrict(k, removed) == k + (IF k > removed THEN 1 ELSE 0)

\* Minor.h lines 86, 91: row + (row >= m_row), col + (col >= m_col)
SkipIndex(k, removed) == k + (IF k >= removed THEN 1 ELSE 0)

\* Minor.h lines 81-82: rows() and cols()
MinorRows(M) == M.rows - 1

MinorCols(M) == M.cols - 1

\* Minor.h lines 89-92: the place of M that coeff(row, col) reads
MinorSource(mrow, mcol, row, col) == <<SkipIndex(row, mrow), SkipIndex(col, mcol)>>

MinorCoeff(M, mrow, mcol, row, col) == M.coeff[MinorSource(mrow, mcol, row, col)]

MinorPlaces(M) == (0 .. MinorRows(M) - 1) \X (0 .. MinorCols(M) - 1)

\* Minor.h lines 71-77 and 109-114: matrix.minor(row, col) constructs the
\* expression; the ei_assert ends the program when row or col is out of range
MinorConstruct ==
  /\ minorPc = "none"
  /\ \E M \in MinorInputs :
       \E row \in (0 - 1) .. M.rows, col \in (0 - 1) .. M.cols :
         /\ m_matrix' = M
         /\ m_row' = row
         /\ m_col' = col
         /\ minorPc' = IF row >= 0 /\ row < M.rows /\ col >= 0 /\ col < M.cols
                         THEN "built" ELSE "aborted"
  /\ UNCHANGED minorOut
  /\ UNCHANGED <<eigenVars, powerVars>>

\* Minor.h lines 89-92: coeff(row, col) of a coefficient not read before
MinorRead ==
  /\ minorPc = "built"
  /\ \E q \in MinorPlaces(m_matrix) \ DOMAIN minorOut :
       minorOut' = [r \in DOMAIN minorOut \cup {q} |->
                      IF r = q
                        THEN [from |-> MinorSource(m_row, m_col, q[1], q[2]),
                              value |-> MinorCoeff(m_matrix, m_row, m_col, q[1], q[2])]
                        ELSE minorOut[r]]
  /\ UNCHANGED <<minorPc, m_matrix, m_row, m_col>>
  /\ UNCHANGED <<eigenVars, powerVars>>

MinorNext ==
  \/ MinorConstruct
  \/ MinorRead

MinorSpec == Init /\ [][MinorNext]_vars

\* ------------------------------------------------------------------ MatrixPower
\* Exponents are counted in units of 1/ExpUnit. The base is an upper
\* triangular matrix of small integers, which is its own Schur form; every
\* other matrix of the object is a power of the base, kept as its exponent:
\* [exp |-> e] stands for A^(e/ExpUnit), times a right factor b when the call
\* has one.
ExpUnit == 4

MaxExp == 6

Exponents == (0 - MaxExp) .. MaxExp

PowerOfA(e) == [set |-> TRUE, exp |-> e, times |-> "none"]

\* the argument b of compute(b, res, p)
ArgB == [set |-> TRUE, exp |-> 0, times |-> "b"]

\* the product L * R of two such matrices
Product(L, R) == [set |-> L.set /\ R.set, exp |-> L.exp + R.exp, times |-> R.times]

UpperTriangular(k, d, s) ==
  [rows |-> k, cols |-> k,
   coeff |-> [q \in (0 .. k - 1) \X (0 .. k - 1) |->
     IF q[1] = q[2] THEN d[q[1]] ELSE IF q[2] = q[1] + 1 THEN s ELSE 0]]

\* diagonals: all 1; all 0; 0,1,2,..; 1,2,3,..; 1,5,9,..
PowerDiagonals(k) ==
  {[j \in 0 .. k - 1 |-> 1], [j \in 0 .. k - 1 |-> 0], [j \in 0 .. k - 1 |-> j],
   [j \in 0 .. k - 1 |-> j + 1], [j \in 0 .. k - 1 |-> 4 * j + 1]}

PowerBases ==
  UNION {{UpperTriangular(k, d, s) : d \in PowerDiagonals(k), s \in {0, 1}} : k \in Sizes}

UnitCoeff(r, c) == IF r = c THEN 1 ELSE 0

\* ComplexSchur of an upper triangular matrix: T is the matrix, U the identity
SchurT(A) == A

SchurU(A) == Mat(A.rows, A.cols, UnitCoeff)

MaxCoeff(v) == CHOOSE a \in {v[j] : j \in DOMAIN v} : \A j \in DOMAIN v : a >= v[j]

MinCoeff(v) == CHOOSE a \in {v[j] : j \in DOMAIN v} : \A j \in DOMAIN v : a <= v[j]

\* lines 147-148: absTdiag.maxCoeff() / absTdiag.minCoeff(), kept as the
\* quotient: den = 0 is the infinity (num > 0) or the NaN (num = 0) of the
\* floating-point division
ConditionOf(T) ==
  LET absTdiag == [j \in 0 .. T.rows - 1 |-> Abs(T.coeff[<<j, j>>])]
  IN [num |-> MaxCoeff(absTdiag), den |-> MinCoeff(absTdiag)]

\* !m_conditionNumber: the number compares equal to zero
IsZeroCondition(c) == c.den # 0 /\ c.num = 0

RECURSIVE Pow(_, _)
Pow(a, k) == IF k <= 0 THEN 1 ELSE a * Pow(a, k - 1)

\* line 151: res > (1-res) * pow(m_conditionNumber, res) for res = r/ExpUnit,
\* 0 < r < ExpUnit, which is r^ExpUnit > (ExpUnit-r)^ExpUnit * c^r; every
\* comparison with a NaN or with +infinity on the right is false
ExceedsScaledCondition(r, c) ==
  /\ c.den # 0
  /\ Pow(r, ExpUnit) * Pow(c.den, r) > Pow(ExpUnit - r, ExpUnit) * Pow(c.num, r)

\* lines 172-185: the loop of computeIntPower, pp = num/den, on res = acc
RECURSIVE IntPowerLoop(_, _, _, _)
IntPowerLoop(num, den, tmp, acc) ==
  IF num >= den
    THEN IntPowerLoop(num, 2 * den, Product(tmp, tmp),
                      IF num % (2 * den) >= den THEN Product(tmp, acc) ELSE acc)
    ELSE [res |-> acc, tmp1 |-> tmp]

\* lines 172-185: computeIntPower(res, p) for the integer p
ComputeIntPower(acc, e) ==
  IntPowerLoop(Abs(e), 1, IF e < 0 THEN PowerOfA(0 - ExpUnit) ELSE PowerOfA(ExpUnit), acc)

\* line 49: MatrixPower(A) : Base(A,0)
PowConstruct ==
  /\ powPc = "none"
  /\ \E A \in PowerBases : m_A' = A
  /\ m_conditionNumber' = ZeroCondition
  /\ powPc' = "idle"
  /\ UNCHANGED <<m_T, m_U, m_fT, m_tmp1, m_tmp2, powForm, powP, powIntpart, powX,
                 powRes, powCalls, schurCount, fracCalls>>
  /\ UNCHANGED <<eigenVars, minorVars>>

\* lines 102-117 and 119-134: compute(res, p) and compute(b, res, p) up to the
\* switch on m_A.cols(); b has at least as many columns as m_A
PowCompute ==
  /\ powPc = "idle"
  /\ powCalls < MaxCalls
  /\ \E e \in Exponents, f \in {"res", "b"} :
       /\ powP' = e
       /\ powForm' = f
       /\ fracCalls' = IF m_A.cols >= 2 /\ e % ExpUnit # 0 THEN fracCalls + 1 ELSE fracCalls
       /\ powRes' = IF m_A.cols = 1
                      THEN (IF f = "res" THEN PowerOfA(e) ELSE Product(PowerOfA(e), ArgB))
                      ELSE Unset
  /\ powCalls' = powCalls + 1
  /\ powPc' = IF m_A.cols >= 2 THEN "modf" ELSE "idle"
  /\ UNCHANGED <<m_A, m_conditionNumber, m_T, m_U, m_fT, m_tmp1, m_tmp2, powIntpart,
                 powX, schurCount>>
  /\ UNCHANGED <<eigenVars, minorVars>>

\* the Schur decomposition is computed whenever the exponent has a fraction
PowModfAndInitEachTime ==
  /\ powPc = "modf"
  /\ LET ip == powP \div ExpUnit
         r == powP - ExpUnit * ip
         init == r # 0
         cond == IF init THEN ConditionOf(SchurT(m_A)) ELSE m_conditionNumber
         bump == 2 * r > ExpUnit /\ ExceedsScaledCondition(r, cond)
     IN /\ m_T' = IF init THEN SchurT(m_A) ELSE m_T
        /\ m_U' = IF init THEN SchurU(m_A) ELSE m_U
        /\ m_conditionNumber' = cond
        /\ schurCount' = IF init THEN schurCount + 1 ELSE schurCount
        /\ powX' = IF bump THEN r - ExpUnit ELSE r
        /\ powIntpart' = IF bump THEN ip + 1 ELSE ip
  /\ powPc' = "int"
  /\ UNCHANGED <<m_A, m_fT, m_tmp1, m_tmp2, powForm, powP, powRes, powCalls, fracCalls>>
  /\ UNCHANGED <<eigenVars, minorVars>>

\* lines 136-156: modfAndInit(p, &intpart)
PowModfAndInit ==
  /\ powPc = "modf"
  /\ LET ip == powP \div ExpUnit
         r == powP - ExpUnit * ip
         init == IsZeroCondition(m_conditionNumber) /\ r # 0
         cond == IF init THEN ConditionOf(SchurT(m_A)) ELSE m_conditionNumber
         bump == 2 * r > ExpUnit /\ ExceedsScaledCondition(r, cond)
     IN /\ m_T' = IF init THEN SchurT(m_A) ELSE m_T
        /\ m_U' = IF init THEN SchurU(m_A) ELSE m_U
        /\ m_conditionNumber' = cond
        /\ schurCount' = IF init THEN schurCount + 1 ELSE schurCount
        /\ powX' = IF bump THEN r - ExpUnit ELSE r
        /\ powIntpart' = IF bump THEN ip + 1 ELSE ip
  /\ powPc' = "int"
  /\ UNCHANGED <<m_A, m_fT, m_tmp1, m_tmp2, powForm, powP, powRes, powCalls, fracCalls>>
  /\ UNCHANGED <<eigenVars, minorVars>>

\* lines 113-114: res = m_Id; computeIntPower(res, intpart), and lines 131,
\* 191-195: m_tmp2 = m_Id; computeIntPower(m_tmp2, p); res = m_tmp2 * b
PowComputeIntPower ==
  /\ powPc = "int"
  /\ LET r == ComputeIntPower(PowerOfA(0), powIntpart)
     IN /\ m_tmp1' = r.tmp1
        /\ IF powForm = "res"
             THEN powRes' = r.res /\ UNCHANGED m_tmp2
             ELSE m_tmp2' = r.res /\ powRes' = Product(r.res, ArgB)
  /\ powPc' = "frac"
  /\ UNCHANGED <<m_A, m_conditionNumber, m_T, m_U, m_fT, powForm, powP, powIntpart,
                 powX, powCalls, schurCount, fracCalls>>
  /\ UNCHANGED <<eigenVars, minorVars>>

\* lines 233-243: computeFracPower(res, x); eigen_assert(m_conditionNumber)
\* ends the program when the number is zero
PowComputeFracPower ==
  /\ powPc = "frac"
  /\ IF powX = 0
       THEN powPc' = "idle" /\ UNCHANGED <<m_fT, m_tmp1, powRes>>
       ELSE IF IsZeroCondition(m_conditionNumber)
         THEN powPc' = "aborted" /\ UNCHANGED <<m_fT, m_tmp1, powRes>>
         ELSE /\ m_fT' = PowerOfA(powX)
              /\ m_tmp1' = PowerOfA(powX)
              /\ powRes' = Product(PowerOfA(powX), powRes)
              /\ powPc' = "idle"
  /\ UNCHANGED <<m_A, m_conditionNumber, m_T, m_U, m_tmp2, powForm, powP, powIntpart,
                 powX, powCalls, schurCount, fracCalls>>
  /\ UNCHANGED <<eigenVars, minorVars>>

PowerNext ==
  \/ PowConstruct
  \/ PowCompute
  \/ PowModfAndInit
  \/ PowComputeIntPower
  \/ PowComputeFracPower

PowerSpec == Init /\ [][PowerNext]_vars

\* ------------------------------------------------------------------ properties
Ascending(v) == \A a \in DOMAIN v : \A b \in DOMAIN v : a < b => v[a] <= v[b]

Count(v, x) == Cardinality({k \in DOMAIN v : v[k] = x})

SameValues(v, w) ==
  /\ Size(v) = Size(w)
  /\ \A x \in {v[k] : k \in DOMAIN v} \cup {w[k] : k \in DOMAIN w} : Count(v, x) = Count(w, x)

\* C1: for n >= 2, when compute(matrix, flag) is about to return, the
\* eigenvalues are in non-decreasing order and are, value for value and with
\* the same multiplicities, the diagonal the deflation loop left.
C1_SortedRearrangement ==
  (pc = "std_return" /\ n >= 2) =>
    /\ Ascending(m_eivalues)
    /\ SameValues(m_eivalues, unsorted.values)

\* a 3x3 or larger run whose diagonal left the loop out of order and with a tie
C1_Witness ==
  /\ pc = "std_return"
  /\ n >= 3
  /\ ~Ascending(unsorted.values)
  /\ \E a \in DOMAIN unsorted.values : \E b \in DOMAIN unsorted.values :
       a # b /\ unsorted.values[a] = unsorted.values[b]

IndexPermutations(k) ==
  {f \in [0 .. k - 1 -> 0 .. k - 1] : \A a \in 0 .. k - 1 : \A b \in 0 .. k - 1 :
                                         f[a] = f[b] => a = b}

\* C2: with computeEigenvectors = true and n >= 2, when compute is about to
\* return, one permutation of the indices takes both the values and the
\* columns the deflation loop left to the eigenvalues and the eigenvector
\* columns: column k is the column that was stored with the value now at k.
C2_PairsKept ==
  (pc = "std_return" /\ n >= 2 /\ computeEigenvectors) =>
    \E f \in IndexPermutations(n) : \A k \in 0 .. n - 1 :
      /\ m_eivalues[k] = unsorted.values[f[k]]
      /\ Col(m_eivec, k) = Col(unsorted.vectors, f[k])

\* a run with QR sweeps, so columns that are no unit vectors, whose sort moved
\* both a value and a column
C2_Witness ==
  /\ pc = "std_return"
  /\ n >= 3
  /\ computeEigenvectors
  /\ "qr" \in invoked
  /\ m_eivalues # unsorted.values
  /\ m_eivec # unsorted.vectors

\* C3: after at least one compute call, eigenvectors() is signalled as a
\* violation exactly when the most recent compute call had
\* computeEigenvectors = false, whatever earlier calls asked for.
C3_LastFlagDecides ==
  (calls > 0 /\ query # "none") => (query = "violation" <=> ~computeEigenvectors)

\* eigenvectors() is refused although the storage still holds the vectors of
\* an earlier call that computed them
C3_Witness ==
  /\ query = "violation"
  /\ calls >= 2
  /\ ~computeEigenvectors
  /\ m_eivec.rows >= 2
  /\ \A q \in DOMAIN m_eivec.coeff : m_eivec.coeff[q] # Indet

\* C4: on an object on which compute was never called, eigenvectors() is
\* always signalled as a violation and never returns a matrix.
C4_UncomputedRefused ==
  (calls = 0 /\ query # "none") => query = "violation"

DimensionViolations == {"compute: not square", "compute: pencil extents"}

\* C5: a compute call whose matrices have the wrong extents is ended by the
\* assertion at its entry: up to and including that step the call has run
\* none of resize, tridiagonalization, Cholesky factorization or any later
\* stage, and the eigenvalue and eigenvector storage is what it was.
C5_DimensionsCheckedFirst ==
  [][(pc' = "aborted" /\ violation' \in DimensionViolations) =>
       /\ pc \in {"std_entry", "gen_entry"}
       /\ invoked = {}
       /\ invoked' = {}
       /\ m_eivalues' = m_eivalues
       /\ m_eivec' = m_eivec
       /\ m_subdiag' = m_subdiag]_vars

\* a call with wrong extents on an object that holds the computed result of
\* an earlier call
C5_Witness ==
  /\ pc = "aborted"
  /\ violation \in DimensionViolations
  /\ calls >= 2
  /\ m_eivalues # Vec(Size(m_eivalues), IndetOf)
  /\ invoked = {}

\* C6: when the Cholesky factorization of matB fails, the generalized compute
\* runs neither the triangular solves nor the standard driver and does not
\* come to its normal return with eigenvalues stored.
C6_FactorizationFailurePropagated ==
  cholB.info = "NumericalIssue" =>
    /\ "solve" \notin invoked
    /\ "driver" \notin invoked
    /\ pc # "gen_return"

\* C7: the eigenvalues compute(matA, matB, flag) returns are the ones the
\* standard driver produces for the reduced matrix matC, hence ascending, and
\* for matB = identity the ones compute(matA) produces; the back-transform
\* comes after the driver, runs exactly when the flag is true, and changes
\* nothing but the eigenvector matrix.
C7_GeneralizedValuesAreDriverValues ==
  /\ [](/\ pc = "std_return" => m_eivalues = EigenvaluesOf(matrix)
        /\ pc = "gen_return" =>
             /\ m_eivalues = EigenvaluesOf(matC)
             /\ Ascending(m_eivalues)
             /\ ("backtransform" \in invoked) <=> computeEigenvectors
             /\ matB = Identity(matA.rows) => m_eivalues = EigenvaluesOf(matA))
  /\ [][pc = "gen_back" =>
          /\ "driver" \in invoked
          /\ "backtransform" \notin invoked
          /\ m_eivalues' = m_eivalues
          /\ m_subdiag' = m_subdiag
          /\ m_eigenvectorsOk' = m_eigenvectorsOk
          /\ computeEigenvectors \/ m_eivec' = m_eivec]_vars

\* a generalized call on a 3x3 pencil whose reduction and whose back-transform
\* both changed something
C7_Witness ==
  /\ pc = "gen_return"
  /\ matA.rows >= 3
  /\ matC # matA
  /\ "qr" \in invoked
  /\ "backtransform" \in invoked
  /\ cholB.info = "Success"

StdStages == {"std_entry", "std_resize", "std_trivial", "std_tridiag", "std_loop",
              "std_qr", "std_sort", "std_return"}

\* C8: no step of a running compute call changes the caller's matA or matB,
\* and no step of the standard driver changes the matrix it was handed, which
\* is the caller's matrix in the standard form and the private copy matC in
\* the generalized form; the solves and adjoints write matC only.
C8_InputsNotModified ==
  /\ []((pc \in StdStages /\ form = "std") => matrix = matA)
  /\ []((pc \in StdStages /\ form = "gen") => matrix = matC)
  /\ [][/\ (pc # "idle" /\ pc' # "idle") => (matA' = matA /\ matB' = matB)
        /\ (pc \in StdStages /\ pc' \in StdStages) => matrix' = matrix]_vars

\* the reduction has produced a matC that differs from the caller's matA
C8_Witness ==
  /\ pc = "gen_driver"
  /\ matA.rows >= 2
  /\ matC # matA
  /\ matB # Identity(matA.rows)

\* C9: for a 1x1 matrix [[a]] compute comes to its return with eigenvalues
\* {a} and the eigenvector matrix [1], whatever the flag, having run neither
\* the tridiagonalization nor a deflation pass, a QR step or a sort iteration.
C9_OneByOne ==
  (pc = "std_return" /\ n = 1) =>
    /\ m_eivalues = [k \in 0 .. 0 |-> matrix.coeff[<<0, 0>>]]
    /\ m_eivec = Mat(1, 1, OnesCoeff)
    /\ invoked \cap {"tridiag", "deflate", "qr", "sort"} = {}

\* a 1x1 call without eigenvectors on an object whose storage had another size
C9_Witness ==
  /\ pc = "std_return"
  /\ n = 1
  /\ form = "std"
  /\ ~computeEigenvectors
  /\ calls >= 2
  /\ matrix.coeff[<<0, 0>>] # 0

\* C10: for a 0x0 matrix compute is a no-op: it does not invoke the
\* tridiagonalization, runs no deflation pass, no QR step and no sort
\* iteration, is not ended by the collaborator, and returns with empty
\* eigenvalues.
C10_EmptyIsNoOp ==
  (form = "std" /\ calls > 0 /\ matrix.rows = 0 /\ matrix.cols = 0) =>
    /\ pc \in StdStages => invoked \cap {"tridiag", "deflate", "qr", "sort"} = {}
    /\ violation # "tridiagonalization: empty matrix"
    /\ pc = "std_return" => m_eivalues = <<>>

\* C11: the result of compute(M, true) is a function of M alone: whatever
\* calls the object saw before and whatever its storage held, the eigenvalues
\* and the eigenvectors at the return are the ones a run from the matrix's
\* own diagonal, sub-diagonal and orthogonal factor, with start = 0 and
\* end = n-1, produces.
C11_ResultDependsOnArgumentsOnly ==
  (pc = "std_return" /\ computeEigenvectors) =>
    /\ m_eivalues = EigenvaluesOf(matrix)
    /\ m_eivec = EigenvectorsOf(matrix)

\* a later call, with QR steps, on an object that already holds a result
C11_Witness ==
  /\ pc = "std_return"
  /\ computeEigenvectors
  /\ form = "std"
  /\ calls >= 2
  /\ n >= 3
  /\ "qr" \in invoked

\* every sub-diagonal entry passes the test of line 416 against its neighbours
AllNegligible(diag, subdiag) ==
  \A j \in 0 .. Size(diag) - 2 :
    IsMuchSmallerThan(Abs(subdiag[j]), Abs(diag[j]) + Abs(diag[j + 1]))

AllZero(v) == \A j \in DOMAIN v : v[j] = 0

\* C12: if every sub-diagonal entry is negligible when the deflation loop is
\* first entered (n >= 2), the first pass sets them all to zero and leaves the
\* loop with end = 0 and without a QR step; a run that leaves the loop without
\* a QR step returns the diagonal entries, sorted.
C12_NegligibleInputDeflatesAtOnce ==
  /\ [][(/\ pc = "std_loop"
         /\ n >= 2
         /\ "deflate" \notin invoked
         /\ AllNegligible(m_eivalues, m_subdiag)) =>
          /\ pc' = "std_sort"
          /\ end' = 0
          /\ AllZero(m_subdiag')
          /\ "qr" \notin invoked'
          /\ m_eivalues' = m_eivalues
          /\ unsorted'.values = m_eivalues]_vars
  /\ []((/\ pc \in {"std_sort", "std_return"}
         /\ n >= 2
         /\ "qr" \notin invoked) =>
          /\ AllZero(m_subdiag)
          /\ end = 0
          /\ pc = "std_return" =>
               /\ Ascending(m_eivalues)
               /\ SameValues(m_eivalues, unsorted.values))

\* a 3x3 matrix with an unsorted diagonal and a tiny, non-zero sub-diagonal
\* entry has been solved without a QR step
C12_Witness ==
  /\ pc = "std_return"
  /\ n >= 3
  /\ matrix.coeff[<<1, 0>>] # 0
  /\ matrix.coeff[<<2, 1>>] # 0
  /\ ~Ascending(unsorted.values)
  /\ "qr" \notin invoked

\* C13: when a compute call on an n x n matrix comes to its return, the
\* eigenvalue vector has length n, the eigenvector matrix is n x n, and the
\* sub-diagonal scratch has length n-1, or 1 when n <= 1, whatever size the
\* object had before.
C13_StorageMatchesInput ==
  pc = "std_return" =>
    /\ Size(m_eivalues) = n
    /\ m_eivec.rows = n
    /\ m_eivec.cols = n
    /\ Size(m_subdiag) = IF n > 1 THEN n - 1 ELSE 1

MinorInRange ==
  /\ 0 <= m_row /\ m_row < m_matrix.rows
  /\ 0 <= m_col /\ m_col < m_matrix.cols

\* C14: M.minor(r, c) with r or c out of range is an assertion failure;
\* otherwise it has R-1 rows and C-1 columns and its coefficient (i, j) is the
\* entry of M at (i + (i>=r ? 1:0), j + (j>=c ? 1:0)): no entry of row r or
\* column c is read, the order of rows and of columns is kept, and the
\* coefficients of the whole minor are the other entries of M, each once.
C14_MinorRemovesRowAndColumn ==
  /\ minorPc # "none" => (minorPc = "aborted" <=> ~MinorInRange)
  /\ minorPc = "built" =>
       /\ DOMAIN minorOut \subseteq (0 .. m_matrix.rows - 2) \X (0 .. m_matrix.cols - 2)
       /\ \A q \in DOMAIN minorOut :
            LET si == IF q[1] >= m_row THEN q[1] + 1 ELSE q[1]
                sj == IF q[2] >= m_col THEN q[2] + 1 ELSE q[2]
            IN /\ minorOut[q].from = <<si, sj>>
               /\ minorOut[q].value = m_matrix.coeff[<<si, sj>>]
               /\ si # m_row
               /\ sj # m_col
       /\ \A q \in DOMAIN minorOut : \A r \in DOMAIN minorOut :
            /\ q[1] < r[1] => minorOut[q].from[1] < minorOut[r].from[1]
            /\ q[2] < r[2] => minorOut[q].from[2] < minorOut[r].from[2]
            /\ q # r => minorOut[q].value # minorOut[r].value
       /\ Cardinality(DOMAIN minorOut) = (m_matrix.rows - 1) * (m_matrix.cols - 1) =>
            {minorOut[q].from : q \in DOMAIN minorOut} =
              {r \in DOMAIN m_matrix.coeff : r[1] # m_row /\ r[2] # m_col}

\* the whole minor of a 3x3 matrix without its middle row and middle column
\* has been read
C14_Witness ==
  /\ minorPc = "built"
  /\ m_matrix.rows >= 3
  /\ m_matrix.cols >= 3
  /\ m_row = 1
  /\ m_col = 1
  /\ Cardinality(DOMAIN minorOut) = (m_matrix.rows - 1) * (m_matrix.cols - 1)

\* C15: on a MatrixPower object whose base has at least 2 columns the Schur
\* decomposition is computed at most once, in the first call whose exponent
\* has a fractional part: calls with integer exponents never compute it, and
\* once it is computed no later call changes the saved m_T, m_U.
C15_SchurComputedOnce ==
  /\ [](/\ schurCount <= 1
        /\ m_A.cols < 2 => schurCount = 0
        /\ (m_A.cols >= 2 /\ powPc # "modf") => (schurCount = 1 <=> fracCalls >= 1))
  /\ [][/\ schurCount' # schurCount =>
             /\ powPc = "modf"
             /\ powP % ExpUnit # 0
             /\ fracCalls = 1
        /\ schurCount >= 1 =>
             /\ m_T' = m_T
             /\ m_U' = m_U
             /\ m_conditionNumber' = m_conditionNumber]_vars

\* two calls with fractional exponents in a row have returned
C15_Witness ==
  /\ powPc = "idle"
  /\ m_A.cols >= 2
  /\ powCalls >= 2
  /\ fracCalls >= 2
  /\ schurCount = 1
  /\ powRes.set
  /\ powRes.exp = powP

\* C16: a compute call on n >= 2 that has entered the deflation loop leaves
\* it and comes to its return, given that the QR steps make sub-diagonal
\* entries negligible; the loop is left only with end <= 0, and no step of
\* the loop reports an error.
C16_DeflationLoopTerminates ==
  /\ (pc = "std_loop" /\ n >= 2) ~> (pc = "std_return")
  /\ [][(pc \in {"std_loop", "std_qr"} /\ n >= 2) =>
          /\ pc' \in {"std_loop", "std_qr", "std_sort"}
          /\ pc' = "std_sort" => end' <= 0
          /\ violation' = violation]_vars

\* in the middle of the loop: QR steps were made and a block is still unreduced
C16_Witness ==
  /\ pc = "std_loop"
  /\ n >= 3
  /\ "qr" \in invoked
  /\ end > 0
  /\ m_subdiag[end - 1] # 0

InDeflationLoop == pc \in {"std_loop", "std_qr"} /\ n >= 2

\* C17: throughout the deflation loop of a call on n >= 2, end never
\* increases and every sub-diagonal entry at an index from end to n-2 is
\* exactly zero; when the loop has been left, end is 0 and all n-1
\* sub-diagonal entries are exactly zero before the sort starts.
C17_TrailingEntriesZero ==
  /\ [](InDeflationLoop =>
          /\ end \in 0 .. n - 1
          /\ \A j \in end .. n - 2 : m_subdiag[j] = 0)
  /\ []((pc = "std_sort" /\ n >= 2) =>
          /\ end = 0
          /\ Size(m_subdiag) = n - 1
          /\ AllZero(m_subdiag))
  /\ [][InDeflationLoop => end' <= end]_vars

\* a pass of the loop on 3x3 or more that comes after a QR step and has
\* deflated a part of the matrix only
C17_Witness ==
  /\ pc = "std_qr"
  /\ n >= 3
  /\ "qr" \in invoked
  /\ end > 0
  /\ end < n - 1

C19_EigenvectorStorageUnmaintained ==
  [][(pc \in {"std_tridiag", "std_loop", "std_qr", "std_sort"}
        /\ n >= 2 /\ ~computeEigenvectors)
      => m_eivec' = m_eivec]_vars

\* C20: the Wilkinson shift of a QR step takes the sign of td as +1 when
\* td = 0, so that for diag[end-1] = diag[end] the shift is
\* diag[end] - e2 / (0 + sqrt(e2)) = diag[end] - |e|; for td > 0 the sign is
\* +1 and for td < 0 it is -1.
C20_ShiftSignAtZero ==
  pc = "std_qr" =>
    LET td == ShiftTd(m_eivalues, end)
        e2 == ShiftE2(m_subdiag, end)
        root == Sqrt(Mul(td, td) + e2)
        mu == WilkinsonShift(m_eivalues, m_subdiag, end)
    IN /\ td = 0 => /\ mu = m_eivalues[end] - Div(e2, 0 + root)
                    /\ mu = m_eivalues[end] - Abs(m_subdiag[end - 1])
       /\ td > 0 => mu = m_eivalues[end] - Div(e2, td + root)
       /\ td < 0 => mu = m_eivalues[end] - Div(e2, td - root)

Column(M, c) == [r \in 0 .. M.rows - 1 |-> M.coeff[<<r, c>>]]

\* C21: one call of the QR step on the block [start, end] writes only
\* diag[start .. end], subdiag[start .. end-1] and, when the accumulator is
\* supplied, its columns start .. end; every other diagonal entry,
\* sub-diagonal entry and accumulator column is unchanged, the extents are
\* unchanged, and with a null accumulator the eigenvector matrix is not
\* written at all.
C21_StepWritesBlockOnly ==
  [][pc = "std_qr" =>
       /\ DOMAIN m_eivalues' = DOMAIN m_eivalues
       /\ DOMAIN m_subdiag' = DOMAIN m_subdiag
       /\ \A j \in DOMAIN m_eivalues : j \notin start .. end => m_eivalues'[j] = m_eivalues[j]
       /\ \A j \in DOMAIN m_subdiag : j \notin start .. end - 1 => m_subdiag'[j] = m_subdiag[j]
       /\ IF computeEigenvectors
            THEN /\ m_eivec'.rows = m_eivec.rows /\ m_eivec'.cols = m_eivec.cols
                 /\ \A j \in 0 .. m_eivec.cols - 1 :
                      j \notin start .. end => Column(m_eivec', j) = Column(m_eivec, j)
            ELSE m_eivec' = m_eivec
       /\ start' = start /\ end' = end /\ n' = n]_vars

\* a QR step has just run with the accumulator on a block smaller than the
\* matrix and has changed the diagonal
C21_Witness ==
  /\ pc = "std_loop"
  /\ "qr" \in invoked
  /\ computeEigenvectors
  /\ n >= 3
  /\ end - start < n - 1
  /\ unsorted = NoPairs

\* no index of 0 .. n-2 holds a sub-diagonal entry that is not zero and yet
\* negligible against its two diagonal neighbours
NoNegligibleLeft(diag, subdiag) ==
  \A j \in 0 .. Size(diag) - 2 :
    subdiag[j] # 0 =>
      ~IsMuchSmallerThan(Abs(subdiag[j]), Abs(diag[j]) + Abs(diag[j + 1]))

\* C22: a deflation pass, which tests the indices from the start left by the
\* previous pass up to end only, zeroes exactly what a test of all of
\* 0 .. end-1 would zero; where end has been shrunk and the next block
\* located, no sub-diagonal entry is not zero and yet negligible.
C22_PartialRetestIsWholeRetest ==
  /\ [][(pc = "std_loop" /\ end > 0) =>
          m_subdiag' = ZeroNegligible(m_eivalues, m_subdiag, 0, end)]_vars
  /\ []((pc \in {"std_qr", "std_sort"} /\ n >= 2) =>
          NoNegligibleLeft(m_eivalues, m_subdiag))

\* after a QR step on the trailing block of a matrix whose sub-diagonal had a
\* zero before that block, a pass has tested the trailing block only and has
\* located the leading block, whose entries it did not test
C22_Witness ==
  /\ pc = "std_qr"
  /\ "qr" \in invoked
  /\ n >= 4
  /\ matrix.coeff[<<n - 2, n - 3>>] = 0
  /\ matrix.coeff[<<n - 1, n - 2>>] # 0
  /\ end <= n - 3
  /\ m_subdiag[0] # 0

\* C23: operatorSqrt() and operatorInverseSqrt() never consult
\* m_eigenvectorsOk and never look at the sign of the eigenvalues: whenever
\* no compute call is running, whether none was made, the last one was made
\* without or with eigenvectors, each of them can be called, and a call
\* returns the function built from m_eivec and m_eivalues as they are stored,
\* whose extents agree, signals no violation and changes nothing of the
\* solver.
C23_MatrixFunctionsUnchecked ==
  /\ [](pc = "idle" =>
          /\ ENABLED OperatorSqrt
          /\ ENABLED OperatorInverseSqrt
          /\ m_eivec.rows = Size(m_eivalues)
          /\ m_eivec.cols = Size(m_eivalues))
  /\ [][(pc = "idle" /\ query' = query /\ calls' = calls) =>
          /\ pc' = "idle"
          /\ violation' = violation
          /\ functionOut'.op \in {"sqrt", "inverse_sqrt"}
          /\ functionOut'.vectors = m_eivec
          /\ functionOut'.values = m_eivalues
          /\ solver' = solver]_vars

\* operatorInverseSqrt() has returned after a call without eigenvectors that
\* left a negative and a zero eigenvalue, a state in which eigenvectors() is
\* refused
C23_Witness ==
  /\ pc = "idle"
  /\ functionOut.op = "inverse_sqrt"
  /\ calls > 0
  /\ ~m_eigenvectorsOk
  /\ \E j \in DOMAIN functionOut.values : functionOut.values[j] < 0 /\ functionOut.values[j] # Indet
  /\ \E j \in DOMAIN functionOut.values : functionOut.values[j] = 0

====
